---------------------------- MODULE Spec2Model ----------------------------
(* A state-machine model of the GraphQL mutations of crm/schema.py         *)
(* (CreateCustomer, BulkCreateCustomers, CreateProduct, CreateOrder) over  *)
(* the three tables Customer, Product and Order, started from an empty     *)
(* database or from the one seed_db.py builds.                             *)
(*                                                                         *)
(* Strings are sequences of tokens, so that validate_email and the phone   *)
(* check are computed from the text and not postulated. Money is counted   *)
(* in cents. A table is the sequence of its rows in insertion order and a  *)
(* row's id is its position (no mutation deletes a row).                   *)
EXTENDS Integers, Sequences, FiniteSets, TLC

VARIABLES
    customers,          \* table Customer: rows [id, name, email, phone]
    products,           \* table Product: rows [id, name, price, stock]
    orders,             \* table Order: rows [id, customer, products, total_amount, order_date]
    pc,                 \* "idle", or "done" once a call has returned or raised
    request,            \* the mutation being served, with its arguments
    response            \* what it returned, or that it raised, until the reply is sent

vars == <<customers, products, orders, pc, request, response>>

-----------------------------------------------------------------------------
(* Values *)

None == [t |-> "none", v |-> <<>>]
Str(s) == [t |-> "str", v |-> s]
\* a JSON value that is neither null nor a string: a non-zero number
NonString == [t |-> "num", v |-> <<>>]
\* a datetime
Date == [t |-> "datetime", v |-> <<"2025-01-01T00:00:00">>]

\* Python truthiness: None and "" are falsy, a non-zero number and a datetime truthy
Truthy(x) == x.t \in {"num", "datetime"} \/ (x.t = "str" /\ x.v # <<>>)

\* bounds of the model
MaxBulk == 3
MaxProducts == 2
MaxOrders == 1

-----------------------------------------------------------------------------
(* django.core.validators.validate_email, on a token sequence: the text is *)
(* split at its last "@"; the user part must be a dot-atom and the domain  *)
(* either the allowlisted "localhost" or at least two labels joined by     *)
(* dots. A token is a word (letters and digits), "@" or ".".               *)

Words == {"alice", "bob", "carol", "example", "com", "localhost"}

Positions(s, c) == {i \in 1..Len(s) : s[i] = c}

Max(S) == CHOOSE m \in S : \A n \in S : n <= m

IsDotAtom(s) ==
    /\ Len(s) % 2 = 1
    /\ \A i \in 1..Len(s) : IF i % 2 = 1 THEN s[i] \in Words ELSE s[i] = "."

validate_email(value) ==
    /\ value.t = "str"
    /\ value.v # <<>>
    /\ Positions(value.v, "@") # {}
    /\ LET at == Max(Positions(value.v, "@"))
           user_part == SubSeq(value.v, 1, at - 1)
           domain_part == SubSeq(value.v, at + 1, Len(value.v))
       IN  /\ IsDotAtom(user_part)
           /\ \/ domain_part = <<"localhost">>
              \/ IsDotAtom(domain_part) /\ Len(domain_part) >= 3

(* The phone check of both customer mutations:                             *)
(*   phone and not (phone.startswith("+") or phone.replace("-","").isdigit()) *)
(* is what rejects; PhoneRejected is that condition. A phone is a sequence *)
(* of one-character tokens.                                                *)

Digits == {"1", "2"}

startswith(s, c) == Len(s) > 0 /\ s[1] = c

replace(s, c) == SelectSeq(s, LAMBDA ch : ch # c)

isdigit(s) == Len(s) > 0 /\ \A i \in 1..Len(s) : s[i] \in Digits

PhoneRejected(phone) ==
    Truthy(phone) /\ ~(startswith(phone.v, "+") \/ isdigit(replace(phone.v, "-")))

\* phone.startswith on a truthy value that is not a string raises AttributeError
PhoneRaises(phone) == phone.t = "num"

-----------------------------------------------------------------------------
(* The ORM calls the mutations make *)

\* Customer.objects.filter(email=email).exists()
EmailExists(table, email) == \E i \in 1..Len(table) : table[i].email = email

\* (a variant that passes the arguments in the wrong order)
NewCustomerSwapped(table, name, email, phone) ==
    [id |-> Len(table) + 1, name |-> email, email |-> name, phone |-> phone]

\* Customer.objects.create(name=..., email=..., phone=...)
NewCustomer(table, name, email, phone) ==
    [id |-> Len(table) + 1, name |-> name, email |-> email, phone |-> phone]

-----------------------------------------------------------------------------
(* The inputs the model draws from *)

Ann == Str(<<"Ann">>)
Bob == Str(<<"Bob">>)

AliceEmail == Str(<<"alice", "@", "example", ".", "com">>)
BobEmail == Str(<<"bob", "@", "example", ".", "com">>)
CarolEmail == Str(<<"carol", "@", "example", ".", "com">>)
NoTldEmail == Str(<<"carol", "@", "example">>)
TwoAtEmail == Str(<<"carol", "@", "bob", "@", "example", ".", "com">>)

PlusPhone == Str(<<"+", "x">>)
DashDigitsPhone == Str(<<"1", "-", "2">>)
DashOnlyPhone == Str(<<"-">>)
LetterPhone == Str(<<"x", "1">>)

Names == {Ann, Bob}
Emails == {CarolEmail, NoTldEmail, TwoAtEmail}
Phones == {None, PlusPhone, DashOnlyPhone, LetterPhone}


\* the records a bulk input is made of: JSON objects ("obj") whose fields may be
\* absent (data.get gives None), and one JSON value that is not an object
Rec(name, email, phone) == [obj |-> TRUE, name |-> name, email |-> email, phone |-> phone]
NotAnObject == [obj |-> FALSE, name |-> None, email |-> None, phone |-> None]

BulkRecords ==
    { Rec(Ann, AliceEmail, None),
      Rec(Ann, CarolEmail, None),
      Rec(Bob, CarolEmail, DashDigitsPhone),
      Rec(Ann, CarolEmail, LetterPhone),
      Rec(Ann, NoTldEmail, LetterPhone),
      Rec(Bob, None, None),
      Rec(Ann, AliceEmail, NonString),
      NotAnObject }

RECURSIVE SeqsUpTo(_, _)
SeqsUpTo(S, n) ==
    IF n = 0 THEN {<<>>}
    ELSE LET shorter == SeqsUpTo(S, n - 1)
         IN  shorter \cup {Append(q, x) : q \in {r \in shorter : Len(r) = n - 1}, x \in S}

BulkInputs == SeqsUpTo(BulkRecords, MaxBulk)

-----------------------------------------------------------------------------
(* The database seed_db.run() leaves *)

LaptopPrice == 99999
PhonePrice == 49999

SeedCustomers ==
    << [id |-> 1, name |-> Str(<<"Alice">>), email |-> AliceEmail, phone |-> Str(<<"+", "1">>)],
       [id |-> 2, name |-> Bob, email |-> BobEmail, phone |-> None] >>

SeedProducts ==
    << [id |-> 1, name |-> "Laptop", price |-> LaptopPrice, stock |-> 10],
       [id |-> 2, name |-> "Phone", price |-> PhonePrice, stock |-> 20] >>

SeedOrders ==
    << [id |-> 1, customer |-> 1, products |-> {1, 2},
        total_amount |-> LaptopPrice + PhonePrice, order_date |-> None] >>

NoCall == [op |-> "none"]

Init ==
    /\ \/ customers = <<>> /\ products = <<>> /\ orders = <<>>
       \/ customers = SeedCustomers /\ products = SeedProducts /\ orders = SeedOrders
    /\ pc = "idle"
    /\ request = NoCall
    /\ response = NoCall

-----------------------------------------------------------------------------
(* CreateCustomer.mutate *)

\* (a variant that checks the phone before the uniqueness of the email)
CreateCustomerMutatePhoneFirst(table, name, email, phone) ==
    IF ~validate_email(email)
    THEN [customers |-> table, customer |-> None, message |-> "Invalid email format"]
    ELSE IF PhoneRejected(phone)
    THEN [customers |-> table, customer |-> None, message |-> "Invalid phone format"]
    ELSE IF EmailExists(table, email)
    THEN [customers |-> table, customer |-> None, message |-> "Email already exists"]
    ELSE LET customer == NewCustomer(table, name, email, phone)
         IN  [customers |-> Append(table, customer), customer |-> customer,
              message |-> "Customer created successfully"]

\* (a variant without the uniqueness check)
CreateCustomerMutateNoUnique(table, name, email, phone) ==
    IF ~validate_email(email)
    THEN [customers |-> table, customer |-> None, message |-> "Invalid email format"]
    ELSE IF PhoneRejected(phone)
    THEN [customers |-> table, customer |-> None, message |-> "Invalid phone format"]
    ELSE LET customer == NewCustomer(table, name, email, phone)
         IN  [customers |-> Append(table, customer), customer |-> customer,
              message |-> "Customer created successfully"]

\* what the call returns and the table it leaves
CreateCustomerMutate(table, name, email, phone) ==
    IF ~validate_email(email)
    THEN [customers |-> table, customer |-> None, message |-> "Invalid email format"]
    ELSE IF EmailExists(table, email)
    THEN [customers |-> table, customer |-> None, message |-> "Email already exists"]
    ELSE IF PhoneRejected(phone)
    THEN [customers |-> table, customer |-> None, message |-> "Invalid phone format"]
    ELSE LET customer == NewCustomer(table, name, email, phone)
         IN  [customers |-> Append(table, customer), customer |-> customer,
              message |-> "Customer created successfully"]

CreateCustomer(name, email, phone) ==
    /\ pc = "idle"
    /\ LET r == CreateCustomerMutate(customers, name, email, phone)
       IN  /\ customers' = r.customers
           /\ response' = [op |-> "createCustomer", customer |-> r.customer,
                           message |-> r.message]
    /\ request' = [op |-> "createCustomer", name |-> name, email |-> email, phone |-> phone]
    /\ pc' = "done"
    /\ UNCHANGED <<products, orders>>

-----------------------------------------------------------------------------
(* BulkCreateCustomers.mutate *)

\* (a variant that numbers the rows from 0, as enumerate() does)
ErrorZeroBased(row, reason, value) == [row |-> row - 1, reason |-> reason, value |-> value]

\* an entry of errors: f"Row {idx+1}: <reason> <value>"
Error(row, reason, value) == [row |-> row, reason |-> reason, value |-> value]

\* one iteration of the loop on record data at enumerate() index idx, against the
\* table as the transaction sees it: it raises, appends an error entry, or creates
BulkIteration(table, idx, data) ==
    IF ~data.obj
    THEN [do |-> "raise"]
    ELSE IF ~validate_email(data.email)
    THEN [do |-> "error", error |-> Error(idx + 1, "Invalid email", data.email)]
    ELSE IF EmailExists(table, data.email)
    THEN [do |-> "error", error |-> Error(idx + 1, "Email already exists", data.email)]
    ELSE IF Truthy(data.phone) /\ PhoneRaises(data.phone)
    THEN [do |-> "raise"]
    ELSE IF PhoneRejected(data.phone)
    THEN [do |-> "error", error |-> Error(idx + 1, "Invalid phone format", data.phone)]
    ELSE [do |-> "create",
          customer |-> NewCustomer(table, data.name, data.email, data.phone)]

\* (a variant whose uniqueness check reads the table as it was before the call)
RECURSIVE BulkLoopSnapshot(_, _, _, _, _)
BulkLoopSnapshot(table, input, idx, created_customers, errors) ==
    IF idx = Len(input)
    THEN [customers |-> table, created_customers |-> created_customers,
          errors |-> errors, raised |-> FALSE, row |-> 0]
    ELSE LET before == SubSeq(table, 1, Len(table) - Len(created_customers))
             seen == BulkIteration(before, idx, input[idx + 1])
             it == IF seen.do = "create"
                   THEN [do |-> "create",
                         customer |-> [seen.customer EXCEPT !.id = Len(table) + 1]]
                   ELSE seen
         IN  CASE it.do = "create" ->
                    BulkLoopSnapshot(Append(table, it.customer), input, idx + 1,
                                     Append(created_customers, it.customer), errors)
               [] it.do = "error" ->
                    BulkLoopSnapshot(table, input, idx + 1, created_customers,
                                     Append(errors, it.error))
               [] it.do = "raise" ->
                    [customers |-> table, created_customers |-> created_customers,
                     errors |-> errors, raised |-> TRUE, row |-> idx + 1]

\* the for loop from index idx on: the table inside the transaction and the two
\* local lists when the loop ends, and whether it ended by raising (at which row)
RECURSIVE BulkLoop(_, _, _, _, _)
BulkLoop(table, input, idx, created_customers, errors) ==
    IF idx = Len(input)
    THEN [customers |-> table, created_customers |-> created_customers,
          errors |-> errors, raised |-> FALSE, row |-> 0]
    ELSE LET it == BulkIteration(table, idx, input[idx + 1])
         IN  CASE it.do = "create" ->
                    BulkLoop(Append(table, it.customer), input, idx + 1,
                             Append(created_customers, it.customer), errors)
               [] it.do = "error" ->
                    BulkLoop(table, input, idx + 1, created_customers,
                             Append(errors, it.error))
               [] it.do = "raise" ->
                    [customers |-> table, created_customers |-> created_customers,
                     errors |-> errors, raised |-> TRUE, row |-> idx + 1]

\* (a variant without the transaction: what was written stays)
AtomicNoRollback(saved, body) == body.customers

\* with transaction.atomic(): the table the block leaves, given the table at its
\* entry and the outcome of its body: an exception rolls every write back
Atomic(saved, body) == IF body.raised THEN saved ELSE body.customers

BulkCreateCustomers(input) ==
    /\ pc = "idle"
    /\ LET body == BulkLoop(customers, input, 0, <<>>, <<>>)
       IN  /\ customers' = Atomic(customers, body)
           /\ response' =
                 IF body.raised
                 THEN [op |-> "bulkCreateCustomers", raised |-> TRUE, row |-> body.row,
                       written |-> Len(body.created_customers)]
                 ELSE [op |-> "bulkCreateCustomers", raised |-> FALSE,
                       customers |-> body.created_customers, errors |-> body.errors]
    /\ request' = [op |-> "bulkCreateCustomers", input |-> input]
    /\ pc' = "done"
    /\ UNCHANGED <<products, orders>>

-----------------------------------------------------------------------------
(* CreateProduct.mutate *)

\* Product.objects.create(name=..., price=..., stock=...)
NewProduct(table, name, price, stock) ==
    [id |-> Len(table) + 1, name |-> name, price |-> price, stock |-> stock]

\* (a variant that rejects only a negative price)
CreateProductMutateZeroPrice(table, name, price, stock) ==
    IF price < 0
    THEN [products |-> table, product |-> None, message |-> "Price must be positive"]
    ELSE IF stock < 0
    THEN [products |-> table, product |-> None, message |-> "Stock cannot be negative"]
    ELSE LET product == NewProduct(table, name, price, stock)
         IN  [products |-> Append(table, product), product |-> product,
              message |-> "Product created successfully"]

CreateProductMutate(table, name, price, stock) ==
    IF price <= 0
    THEN [products |-> table, product |-> None, message |-> "Price must be positive"]
    ELSE IF stock < 0
    THEN [products |-> table, product |-> None, message |-> "Stock cannot be negative"]
    ELSE LET product == NewProduct(table, name, price, stock)
         IN  [products |-> Append(table, product), product |-> product,
              message |-> "Product created successfully"]

CreateProduct(name, price, stock) ==
    /\ pc = "idle"
    /\ Len(products) < MaxProducts
    /\ LET r == CreateProductMutate(products, name, price, stock)
       IN  /\ products' = r.products
           /\ response' = [op |-> "createProduct", product |-> r.product,
                           message |-> r.message]
    /\ request' = [op |-> "createProduct", name |-> name, price |-> price, stock |-> stock]
    /\ pc' = "done"
    /\ UNCHANGED <<customers, orders>>

-----------------------------------------------------------------------------
(* CreateOrder.mutate *)

\* Customer.objects.get(pk=customer_id): the rows found (none: DoesNotExist)
GetCustomer(table, pk) == SelectSeq(table, LAMBDA row : row.id = pk)

\* Product.objects.filter(pk__in=product_ids): each matching row once, in table order
FilterProducts(table, product_ids) ==
    SelectSeq(table, LAMBDA row : \E i \in 1..Len(product_ids) : product_ids[i] = row.id)

\* (a variant that leaves the last product out)
RECURSIVE SumPricesButLast(_)
SumPricesButLast(rows) ==
    IF Len(rows) <= 1 THEN (IF rows = <<>> THEN 0 ELSE rows[1].price)
    ELSE rows[1].price + (IF Len(rows) = 2 THEN 0 ELSE SumPricesButLast(Tail(rows)))

\* sum(p.price for p in products)
RECURSIVE SumPrices(_)
SumPrices(rows) ==
    IF rows = <<>> THEN 0 ELSE rows[1].price + SumPrices(Tail(rows))

\* order.products.set(products): the ids the association table holds for the order
ProductSet(rows) == {rows[i].id : i \in 1..Len(rows)}

\* (a variant that looks the products up before the customer)
CreateOrderMutateProductsFirst(customerT, productT, orderT, customer_id, product_ids, order_date) ==
    LET found == GetCustomer(customerT, customer_id)
        matched == FilterProducts(productT, product_ids)
    IN  IF matched = <<>>
        THEN [orders |-> orderT, order |-> None, message |-> "No valid products found",
              message_id |-> 0]
        ELSE IF Len(matched) # Len(product_ids)
        THEN [orders |-> orderT, order |-> None, message |-> "Some product IDs are invalid",
              message_id |-> 0]
        ELSE IF found = <<>>
        THEN [orders |-> orderT, order |-> None, message |-> "Invalid customer ID",
              message_id |-> customer_id]
        ELSE LET order == [id |-> Len(orderT) + 1,
                           customer |-> found[1].id,
                           total_amount |-> SumPrices(matched),
                           order_date |-> IF Truthy(order_date) THEN order_date ELSE None,
                           products |-> ProductSet(matched)]
             IN  [orders |-> Append(orderT, order), order |-> order,
                  message |-> "Order created successfully", message_id |-> 0]

\* (a variant that stores customer_id as the foreign key without looking it up)
CreateOrderMutateNoLookup(customerT, productT, orderT, customer_id, product_ids, order_date) ==
    LET matched == FilterProducts(productT, product_ids)
    IN  IF matched = <<>>
        THEN [orders |-> orderT, order |-> None, message |-> "No valid products found",
              message_id |-> 0]
        ELSE IF Len(matched) # Len(product_ids)
        THEN [orders |-> orderT, order |-> None, message |-> "Some product IDs are invalid",
              message_id |-> 0]
        ELSE LET order == [id |-> Len(orderT) + 1,
                           customer |-> customer_id,
                           total_amount |-> SumPrices(matched),
                           order_date |-> IF Truthy(order_date) THEN order_date ELSE None,
                           products |-> ProductSet(matched)]
             IN  [orders |-> Append(orderT, order), order |-> order,
                  message |-> "Order created successfully", message_id |-> 0]

CreateOrderMutate(customerT, productT, orderT, customer_id, product_ids, order_date) ==
    LET found == GetCustomer(customerT, customer_id)
        matched == FilterProducts(productT, product_ids)
    IN  IF found = <<>>
        THEN [orders |-> orderT, order |-> None, message |-> "Invalid customer ID",
              message_id |-> customer_id]
        ELSE IF matched = <<>>
        THEN [orders |-> orderT, order |-> None, message |-> "No valid products found",
              message_id |-> 0]
        ELSE IF Len(matched) # Len(product_ids)
        THEN [orders |-> orderT, order |-> None, message |-> "Some product IDs are invalid",
              message_id |-> 0]
        ELSE LET order == [id |-> Len(orderT) + 1,
                           customer |-> found[1].id,
                           total_amount |-> SumPrices(matched),
                           order_date |-> IF Truthy(order_date) THEN order_date ELSE None,
                           products |-> ProductSet(matched)]
             IN  [orders |-> Append(orderT, order), order |-> order,
                  message |-> "Order created successfully", message_id |-> 0]

CreateOrder(customer_id, product_ids, order_date) ==
    /\ pc = "idle"
    /\ Len(orders) < MaxOrders
    /\ LET r == CreateOrderMutate(customers, products, orders,
                                  customer_id, product_ids, order_date)
       IN  /\ orders' = r.orders
           /\ response' = [op |-> "createOrder", order |-> r.order, message |-> r.message,
                           message_id |-> r.message_id]
    /\ request' = [op |-> "createOrder", customer_id |-> customer_id,
                   product_ids |-> product_ids, order_date |-> order_date]
    /\ pc' = "done"
    /\ UNCHANGED <<customers, products>>

ProductNames == {"Widget"}
Prices == {-1, 0, 5, 7}
Stocks == {-1, 0, 2}
CustomerIds == {1, 3}
ProductIdLists == {<<>>, <<1>>, <<3>>, <<1, 2>>, <<2, 1>>, <<1, 1>>, <<1, 3>>}
OrderDates == {None, Date}

-----------------------------------------------------------------------------
\* the server sends the reply and is ready for the next request
Reply ==
    /\ pc = "done"
    /\ pc' = "idle"
    /\ request' = NoCall
    /\ response' = NoCall
    /\ UNCHANGED <<customers, products, orders>>

NextCustomers ==
    \/ \E name \in Names, email \in Emails, phone \in Phones :
           CreateCustomer(name, email, phone)
    \/ \E input \in BulkInputs : BulkCreateCustomers(input)
    \/ Reply

NextOrders ==
    \/ \E name \in Names, email \in Emails, phone \in Phones :
           CreateCustomer(name, email, phone)
    \/ \E name \in ProductNames, price \in Prices, stock \in Stocks :
           CreateProduct(name, price, stock)
    \/ \E customer_id \in CustomerIds, product_ids \in ProductIdLists,
          order_date \in OrderDates :
           CreateOrder(customer_id, product_ids, order_date)
    \/ Reply

Next == NextCustomers \/ NextOrders

\* every mutation, from either initial database
Spec == Init /\ [][Next]_vars

\* the two customer mutations alone (products and orders stay as they start)
CustomerSpec == Init /\ [][NextCustomers]_vars

\* every mutation but the bulk one
OrderSpec == Init /\ [][NextOrders]_vars

-----------------------------------------------------------------------------
(* Properties. A step from pc = "idle" to pc = "done" is one whole call:   *)
(* the unprimed tables are the database before it, request' and response'  *)
(* the call and its outcome, the primed tables the database after it.      *)

Calls(op) == pc = "idle" /\ pc' = "done" /\ request'.op = op

Returned(op) == pc = "done" /\ request.op = op

\* the number of rows of a table that carry the email
CountEmail(table, email) == Cardinality({i \in 1..Len(table) : table[i].email = email})

\* the rows of a bulk input no entry of errors names, in increasing order
RECURSIVE Ascending(_)
Ascending(S) ==
    IF S = {} THEN <<>>
    ELSE LET m == CHOOSE x \in S : \A y \in S : x <= y
         IN  <<m>> \o Ascending(S \ {m})

RowsWithoutError(input, errs) ==
    Ascending({k \in 1..Len(input) : \A j \in 1..Len(errs) : errs[j].row # k})

\* the sum of the prices of the products of the table whose ids are in ids
RECURSIVE TotalOf(_, _)
TotalOf(table, ids) ==
    IF ids = {} THEN 0
    ELSE LET id == CHOOSE x \in ids : TRUE
             price == (CHOOSE row \in {table[i] : i \in 1..Len(table)} : row.id = id).price
         IN  price + TotalOf(table, ids \ {id})

TableIds(table) == {table[i].id : i \in 1..Len(table)}

(* C1. bulkCreateCustomers is all-or-nothing: a call that raises while     *)
(* processing some record leaves table Customer exactly as it was before   *)
(* the call, whatever the earlier records wrote; and a call whose input    *)
(* holds a record that is not an object does raise, at that record or      *)
(* before it.                                                              *)
C1_BulkAllOrNothing ==
    [][ Calls("bulkCreateCustomers") =>
          LET input == request'.input
              bad == {k \in 1..Len(input) : ~input[k].obj}
          IN  /\ response'.raised => customers' = customers
              /\ bad # {} => /\ response'.raised
                             /\ \A k \in bad : response'.row <= k
      ]_vars

\* a call raised at a row after the first, after writing at least one row that
\* the table no longer holds
C1_Witness ==
    /\ Returned("bulkCreateCustomers")
    /\ response.raised
    /\ response.row > 1
    /\ response.written >= 1
    /\ \E k \in 1..Len(request.input) :
          /\ k < response.row
          /\ request.input[k].obj
          /\ validate_email(request.input[k].email)
          /\ ~PhoneRejected(request.input[k].phone)
          /\ ~EmailExists(customers, request.input[k].email)

\* what a valid record carrying a new email gets in a bulk call that returns: with
\* first the first row carrying the email that passes the phone check (0: none)
SameEmailRows(input, email) == {k \in 1..Len(input) : input[k].obj /\ input[k].email = email}

(* C2, as stated. In a bulk call that returns, of the records that carry   *)
(* the same valid email, not in the table before the call, the first is    *)
(* created and every later one gets an "Email already exists" entry for    *)
(* its row.                                                                *)
C2_FirstOfSameEmailIsCreated ==
    [][ (Calls("bulkCreateCustomers") /\ ~response'.raised) =>
          LET input == request'.input
          IN  \A i \in 1..Len(input) :
                 LET rows == SameEmailRows(input, input[i].email)
                 IN  ( /\ input[i].obj
                       /\ validate_email(input[i].email)
                       /\ ~EmailExists(customers, input[i].email)
                       /\ \A k \in rows : i <= k
                       /\ Cardinality(rows) >= 2 )
                     => /\ \E c \in 1..Len(response'.customers) :
                              /\ response'.customers[c].email = input[i].email
                              /\ response'.customers[c].name = input[i].name
                              /\ response'.customers[c].phone = input[i].phone
                        /\ \A j \in rows \ {i} :
                              \E e \in 1..Len(response'.errors) :
                                 response'.errors[e] =
                                    Error(j, "Email already exists", input[i].email)
      ]_vars

(* C2, amended. In a bulk call that returns, of the records that carry the *)
(* same valid email, not in the table before the call, the first one whose *)
(* phone passes the phone check is created and is the only customer        *)
(* created with that email; each one after it gets an "Email already       *)
(* exists" entry for its row and each one before it an "Invalid phone      *)
(* format" entry; the check of a record sees the rows the earlier records  *)
(* of the same call wrote.                                                 *)
C2_SequentialVisibility ==
    [][ (Calls("bulkCreateCustomers") /\ ~response'.raised) =>
          LET input == request'.input
              created == response'.customers
              errs == response'.errors
          IN  \A i \in 1..Len(input) :
                 LET rows == SameEmailRows(input, input[i].email)
                 IN  ( /\ input[i].obj
                       /\ validate_email(input[i].email)
                       /\ ~EmailExists(customers, input[i].email)
                       /\ ~PhoneRejected(input[i].phone)
                       /\ \A k \in rows : k < i => PhoneRejected(input[k].phone) )
                     => /\ CountEmail(created, input[i].email) = 1
                        /\ \E c \in 1..Len(created) :
                              /\ created[c].email = input[i].email
                              /\ created[c].name = input[i].name
                              /\ created[c].phone = input[i].phone
                        /\ CountEmail(customers', input[i].email) = 1
                        /\ \A j \in rows :
                              /\ j > i => \E e \in 1..Len(errs) :
                                    errs[e] = Error(j, "Email already exists", input[i].email)
                              /\ j < i => \E e \in 1..Len(errs) :
                                    errs[e] = Error(j, "Invalid phone format", input[j].phone)
      ]_vars

\* a call returned in which two records carried the same new valid email and both
\* passed the phone check: one customer, and an "Email already exists" entry for
\* the later row
C2_Witness ==
    /\ Returned("bulkCreateCustomers")
    /\ ~response.raised
    /\ \E i, j \in 1..Len(request.input) :
          /\ i < j
          /\ request.input[i].obj /\ request.input[j].obj
          /\ request.input[i].email = request.input[j].email
          /\ validate_email(request.input[i].email)
          /\ ~PhoneRejected(request.input[i].phone)
          /\ ~PhoneRejected(request.input[j].phone)
          /\ \E c \in 1..Len(response.customers) :
                response.customers[c].email = request.input[i].email
          /\ \E e \in 1..Len(response.errors) :
                response.errors[e] =
                   Error(j, "Email already exists", request.input[i].email)

(* C3. In a bulk call that returns, every record has exactly one outcome:  *)
(* len(customers) + len(errors) = len(input); the entries of errors carry  *)
(* 1-based rows of the input, in increasing order, each with the email or  *)
(* phone of the record of its row; the customers are the                   *)
(* records of the remaining rows, in input order; and the table after the  *)
(* call is the table before it followed by exactly those customers (a      *)
(* rejected record writes nothing and stops nothing).                      *)
C3_OneOutcomePerRecord ==
    [][ (Calls("bulkCreateCustomers") /\ ~response'.raised) =>
          LET input == request'.input
              created == response'.customers
              errs == response'.errors
              kept == RowsWithoutError(input, errs)
          IN  /\ Len(created) + Len(errs) = Len(input)
              /\ \A e \in 1..Len(errs) : errs[e].row \in 1..Len(input)
              /\ \A e \in 1..Len(errs) - 1 : errs[e].row < errs[e + 1].row
              /\ \A e \in 1..Len(errs) :
                    errs[e].value \in {input[errs[e].row].email, input[errs[e].row].phone}
              /\ Len(kept) = Len(created)
              /\ \A c \in 1..Len(created) :
                    /\ created[c].email = input[kept[c]].email
                    /\ created[c].name = input[kept[c]].name
                    /\ created[c].phone = input[kept[c]].phone
              /\ customers' = customers \o created
      ]_vars

\* the example: three records, the second with a malformed email; two customers,
\* from records 1 and 3, and one entry, for row 2
C3_Witness ==
    /\ Returned("bulkCreateCustomers")
    /\ ~response.raised
    /\ Len(request.input) = 3
    /\ request.input[2].email = NoTldEmail
    /\ Len(response.customers) = 2
    /\ response.customers[1].email = request.input[1].email
    /\ response.customers[2].email = request.input[3].email
    /\ response.errors = <<Error(2, "Invalid email", NoTldEmail)>>
    /\ CountEmail(customers, request.input[1].email) = 1
    /\ CountEmail(customers, request.input[3].email) = 1

(* C4. No two rows of table Customer carry the same email, in any state    *)
(* the two customer mutations reach from a table without duplicates.       *)
C4_EmailUnique ==
    \A i, j \in 1..Len(customers) : customers[i].email = customers[j].email => i = j

\* createCustomer called with the very arguments of a row the table holds: it
\* answered "Email already exists" and the table holds that email once
C4_Witness ==
    /\ Returned("createCustomer")
    /\ response.message = "Email already exists"
    /\ response.customer = None
    /\ \E i \in 1..Len(customers) :
          /\ customers[i].name = request.name
          /\ customers[i].email = request.email
          /\ customers[i].phone = request.phone
    /\ CountEmail(customers, request.email) = 1

(* C5. Every order a successful createOrder stores has total_amount equal  *)
(* to the sum of the prices of the products attached to it, which are the  *)
(* products the requested ids resolve to.                                  *)
C5_TotalIsSumOfPrices ==
    /\ \A o \in 1..Len(orders) :
          orders[o].total_amount = TotalOf(products, orders[o].products)
    /\ (Returned("createOrder") /\ response.message = "Order created successfully") =>
          /\ response.order = orders[Len(orders)]
          /\ response.order.products =
                {request.product_ids[i] : i \in 1..Len(request.product_ids)}
          /\ response.order.total_amount = TotalOf(products, response.order.products)

\* an order was created for two products of different prices
C5_Witness ==
    /\ Returned("createOrder")
    /\ response.message = "Order created successfully"
    /\ Cardinality(response.order.products) = 2
    /\ \E a, b \in 1..Len(products) :
          /\ response.order.products = {a, b}
          /\ products[a].price # products[b].price
          /\ response.order.total_amount = products[a].price + products[b].price

C7_OrderReferences ==
    \A o \in 1..Len(orders) :
       /\ Cardinality({i \in 1..Len(customers) : customers[i].id = orders[o].customer}) = 1
       /\ orders[o].products # {}
       /\ orders[o].products \subseteq TableIds(products)

\* createOrder stored an order for a customer that createCustomer created
C7_Witness ==
    /\ Returned("createOrder")
    /\ response.message = "Order created successfully"
    /\ \E i \in 1..Len(customers) :
          /\ customers[i].id = orders[Len(orders)].customer
          /\ customers[i].email = CarolEmail

(* C8. createCustomer reports the first failing check, in the order email  *)
(* format, email uniqueness, phone format, and a call that reports a       *)
(* failure returns no customer and leaves table Customer as it was; a call *)
(* whose email is that of a row of the table answers "Email already        *)
(* exists" whatever its name and phone.                                    *)
C8_FirstFailureWins ==
    [][ Calls("createCustomer") =>
          LET email == request'.email
              phone == request'.phone
              failed(msg) == /\ response'.message = msg
                             /\ response'.customer = None
                             /\ customers' = customers
          IN  /\ ~validate_email(email) => failed("Invalid email format")
              /\ (validate_email(email) /\ CountEmail(customers, email) > 0) =>
                    failed("Email already exists")
              /\ ( /\ validate_email(email)
                   /\ CountEmail(customers, email) = 0
                   /\ PhoneRejected(phone) ) => failed("Invalid phone format")
              /\ CountEmail(customers, email) > 0 => failed("Email already exists")
              /\ response'.message # "Customer created successfully" =>
                    response'.customer = None /\ customers' = customers
      ]_vars

\* a call with the email of a row, another name and a phone the phone check would
\* reject, was answered "Email already exists"
C8_Witness ==
    /\ Returned("createCustomer")
    /\ response.message = "Email already exists"
    /\ response.customer = None
    /\ PhoneRejected(request.phone)
    /\ \E i \in 1..Len(customers) :
          customers[i].email = request.email /\ customers[i].name # request.name

(* C9, as stated. createCustomer with a valid email that no row carries    *)
(* succeeds, and the table then holds exactly one row with that email.     *)
C9_ValidNewEmailSucceeds ==
    [][ ( /\ Calls("createCustomer")
          /\ validate_email(request'.email)
          /\ CountEmail(customers, request'.email) = 0 )
        => /\ response'.message = "Customer created successfully"
           /\ CountEmail(customers', request'.email) = 1
      ]_vars

(* C9, amended. createCustomer with a valid email that no row carries and  *)
(* a phone that passes the phone check (absent, empty, starting with "+",  *)
(* or digits and hyphens with at least one digit) succeeds: it returns the *)
(* customer with the name, email and phone given, and the table then holds *)
(* exactly one row with that email, which is that customer.                *)
C9_ValidNewCustomerSucceeds ==
    [][ ( /\ Calls("createCustomer")
          /\ validate_email(request'.email)
          /\ CountEmail(customers, request'.email) = 0
          /\ ~PhoneRejected(request'.phone) )
        => /\ response'.message = "Customer created successfully"
           /\ response'.customer # None
           /\ response'.customer.name = request'.name
           /\ response'.customer.email = request'.email
           /\ response'.customer.phone = request'.phone
           /\ CountEmail(customers', request'.email) = 1
           /\ customers' = Append(customers, response'.customer)
      ]_vars

\* a customer was created with a phone that starts with "+"
C9_Witness ==
    /\ Returned("createCustomer")
    /\ response.message = "Customer created successfully"
    /\ request.phone = PlusPhone
    /\ CountEmail(customers, request.email) = 1
    /\ customers[Len(customers)] = response.customer

(* C10. createProduct with price <= 0 answers "Price must be positive"     *)
(* whatever the stock, with price > 0 and stock < 0 "Stock cannot be       *)
(* negative", in both cases with no product and table Product as it was;   *)
(* a product it stores has price > 0 and stock >= 0.                       *)
C10_ProductChecks ==
    [][ Calls("createProduct") =>
          LET price == request'.price
              stock == request'.stock
              failed(msg) == /\ response'.message = msg
                             /\ response'.product = None
                             /\ products' = products
          IN  /\ price <= 0 => failed("Price must be positive")
              /\ (price > 0 /\ stock < 0) => failed("Stock cannot be negative")
              /\ products' # products =>
                    /\ products' = Append(products, response'.product)
                    /\ response'.product.price = price /\ price > 0
                    /\ response'.product.stock = stock /\ stock >= 0
      ]_vars

\* a call with a price of at most 0 and a negative stock was answered with the
\* price message
C10_Witness ==
    /\ Returned("createProduct")
    /\ request.price <= 0
    /\ request.stock < 0
    /\ response.message = "Price must be positive"
    /\ response.product = None

=============================================================================
